---- MODULE Spec2Model ----
(***************************************************************************)
(* The frame loop of src/main.cpp (real-time black hole renderer): input   *)
(* handling and autopilot progress, the zero-area-viewport skip, the       *)
(* render-target (re)allocation, the camera placement and the chain of     *)
(* render passes.  One action per step of the loop body, in source order;  *)
(* pc is the position inside the body of `while (!glfwWindowShouldClose)`. *)
(*                                                                         *)
(* Time is counted in whole seconds.  autopilotT holds the progress as a   *)
(* number of seconds out of autopilotDuration, i.e. the code's double      *)
(* autopilotT is autopilotT / autopilotDuration here, and 1.0 in the code  *)
(* is autopilotDuration here.                                              *)
(***************************************************************************)
EXTENDS Integers, Sequences, FiniteSets, TLC

(* ---------------------------------------------------------------------- *)
(* Program constants                                                       *)
(* ---------------------------------------------------------------------- *)
kMaxBloomIter == 5
\* kRenderScale = 0.75f, exactly kRenderScaleNum / kRenderScaleDen
kRenderScaleNum == 3
kRenderScaleDen == 4
autopilotDuration == 18
InitialBloomIterations == 5

(* ---------------------------------------------------------------------- *)
(* Bounds of the model                                                     *)
(* ---------------------------------------------------------------------- *)
\* glfwGetTime() is not advanced past MaxTime seconds
MaxTime == 36
\* at most MaxAllocs (re)allocations of the render-target set
MaxAllocs == 3
\* the orbit model is sampled up to MaxHalfTurns half turns of the orbit
MaxHalfTurns == 60

Levels == 0 .. (kMaxBloomIter - 1)

Min(a, b) == IF a < b THEN a ELSE b
Max(a, b) == IF a > b THEN a ELSE b

VARIABLES
  pc,               \* position in the loop body
  shouldClose,      \* glfwWindowShouldClose(window)
  winSize,          \* framebuffer size of the window, <<w, h>>
  mouseX, mouseY,   \* written by mouseCallback
  lastFrameTime, deltaTime,
  autopilotActive, autopilotT, prevCKey, cameraPreset,
  uiFrameOpen,      \* an ImGui frame is begun and not yet rendered
  width, height,    \* glfwGetFramebufferSize result of this iteration
  renderWidth, renderHeight, SCR_WIDTH, SCR_HEIGHT,
  texBlackhole, fboBlackhole, texBrightness,
  texDownsampled, texUpsampled, texBloomFinal, texTonemapped,
  glTextures,       \* GL texture objects: name -> <<w, h>>
  glFramebuffers,   \* GL framebuffer objects: name -> [color, w, h, depth]
  allocFault,       \* the creation call of the next allocation block that fails
  mouseControlEnabled, frontView, topView,
  cameraState,
  bloomIterations,
  level,            \* loop variable of the two bloom loops
  boundFbo,         \* GL_FRAMEBUFFER binding
  glViewportSize,   \* glViewport <<w, h>>
  passes,           \* draw calls issued in this iteration, in order
  orbitHalfTurns,   \* elapsed time of the orbit model, in units of pi / orbitSpeed
  satState,         \* the last result of computeSatelliteOrbit
  indexed           \* the indices used on texDownsampled / texUpsampled in this iteration

inputVars  == <<shouldClose, winSize, mouseX, mouseY>>
timeVars   == <<lastFrameTime, deltaTime>>
pilotVars  == <<autopilotActive, autopilotT, prevCKey>>
sizeVars   == <<width, height>>
targetVars == <<renderWidth, renderHeight, SCR_WIDTH, SCR_HEIGHT, texBlackhole,
                fboBlackhole, texBrightness, texDownsampled, texUpsampled,
                texBloomFinal, texTonemapped, glTextures, glFramebuffers,
                allocFault>>
flagVars   == <<mouseControlEnabled, frontView, topView>>
glVars     == <<boundFbo, glViewportSize, passes>>
orbitVars  == <<orbitHalfTurns, satState>>

vars == <<pc, inputVars, timeVars, pilotVars, cameraPreset, uiFrameOpen, sizeVars,
          targetVars, flagVars, cameraState, bloomIterations, level, glVars,
          orbitVars, indexed>>

(* ---------------------------------------------------------------------- *)
(* Vectors.  A component is <<"q", num, den>> (the rational num/den in     *)
(* lowest terms, den > 0) or <<f, num, den>> for a trigonometric value     *)
(* that is not rational: f names the function and num/den is its angle.   *)
(* ---------------------------------------------------------------------- *)
RECURSIVE Gcd(_, _)
Gcd(a, b) == IF b = 0 THEN a ELSE Gcd(b, a % b)

Abs(a) == IF a < 0 THEN -a ELSE a

Q(n, d) ==
  LET g == Gcd(Abs(n), d) IN <<"q", n \div g, d \div g>>

Vec3(x, y, z) == <<Q(x, 1), Q(y, 1), Q(z, 1)>>

\* the graphics driver serves every creation call of the next allocation block;
\* otherwise allocFault is <<"texture", k>>, the k-th createColorTexture call
\* of the block fails, or <<"framebuffer", 0>>, createFramebuffer fails
NoFault == <<"none", 0>>

\* no orbit state computed yet
NotComputed == [position |-> <<>>]

Init ==
  /\ pc = "loop"
  /\ shouldClose = FALSE
  /\ winSize = <<1920, 1080>>
  /\ mouseX = 0 /\ mouseY = 0
  /\ lastFrameTime = 0 /\ deltaTime = 0
  /\ autopilotActive = FALSE /\ autopilotT = 0 /\ prevCKey = FALSE
  /\ cameraPreset = 0
  /\ uiFrameOpen = FALSE
  /\ width = 0 /\ height = 0
  /\ renderWidth = 0 /\ renderHeight = 0
  /\ SCR_WIDTH = 1920 /\ SCR_HEIGHT = 1080
  /\ texBlackhole = 0 /\ fboBlackhole = 0 /\ texBrightness = 0
  /\ texDownsampled = [i \in Levels |-> 0]
  /\ texUpsampled = [i \in Levels |-> 0]
  /\ texBloomFinal = 0 /\ texTonemapped = 0
  /\ glTextures = <<>>
  /\ glFramebuffers = <<>>
  /\ allocFault = NoFault
  /\ mouseControlEnabled = TRUE /\ frontView = FALSE /\ topView = FALSE
  /\ cameraState = [pos |-> Vec3(0, 0, 0), target |-> Vec3(0, 0, 0)]
  /\ bloomIterations = InitialBloomIterations
  /\ level = 0
  /\ boundFbo = 0
  /\ glViewportSize = <<0, 0>>
  /\ passes = <<>>
  /\ orbitHalfTurns = 0
  /\ satState = NotComputed
  /\ indexed = {}


(* ---------------------------------------------------------------------- *)
(* A draw call: op is the pass, fbo the framebuffer bound for a direct     *)
(* draw (0 is the default surface), target the texture a renderToTexture  *)
(* call writes (0 for a direct draw), <<w, h>> the viewport it draws at,   *)
(* reads the textures it samples, lvl the mip level (-1 outside the mip    *)
(* loops).                                                                 *)
(* ---------------------------------------------------------------------- *)
Pass(op, fbo, target, w, h, reads, lvl) ==
  [op |-> op, fbo |-> fbo, target |-> target, w |-> w, h |-> h,
   reads |-> reads, lvl |-> lvl]

SwapBuffers == Pass("swap", 0, 0, 0, 0, <<>>, -1)

\* number of (re)allocations performed so far: one framebuffer each
Allocs == Len(glFramebuffers)

(* ---------------------------------------------------------------------- *)
(* while (!glfwWindowShouldClose(window))                                  *)
(* ---------------------------------------------------------------------- *)
LoopTest ==
  /\ pc = "loop"
  /\ pc' = IF shouldClose THEN "shutdown" ELSE "poll"
  /\ width' = 0 /\ height' = 0
  /\ deltaTime' = 0
  /\ level' = 0
  /\ passes' = <<>>
  /\ indexed' = {}
  /\ UNCHANGED <<orbitVars, inputVars, lastFrameTime, pilotVars, cameraPreset, uiFrameOpen,
                 targetVars, flagVars, cameraState, bloomIterations, boundFbo,
                 glViewportSize>>

\* the clamp to 1 dropped
ScaledDimNoClamp(d) == (d * kRenderScaleNum) \div kRenderScaleDen

\* int scaledWidth = (int)(width * kRenderScale); if (scaledWidth < 1) scaledWidth = 1;
ScaledDim(d) ==
  LET s == (d * kRenderScaleNum) \div kRenderScaleDen
  IN  IF s < 1 THEN 1 ELSE s

\* the size comparison dropped: allocation only while nothing is allocated
NeedsReallocFirstOnly(w, h) == texBlackhole = 0

\* reallocation on every frame
NeedsReallocAlways(w, h) == TRUE

\* if (scaledWidth != renderWidth || scaledHeight != renderHeight || texBlackhole == 0)
NeedsRealloc(w, h) ==
  \/ ScaledDim(w) # renderWidth
  \/ ScaledDim(h) # renderHeight
  \/ texBlackhole = 0

\* a window size the model lets the window system deliver
SizeOffered(sz) ==
  sz[1] <= 0 \/ sz[2] <= 0 \/ ~NeedsRealloc(sz[1], sz[2]) \/ Allocs < MaxAllocs

mouseCallback(x, y) ==
  /\ mouseX' = x
  /\ mouseY' = y

(* glfwPollEvents: the window system delivers a resize, cursor positions   *)
(* and key events; ESC asks the window to close.  Sizes, Mice and Escs are *)
(* the events offered.  A size that would need one more allocation than    *)
(* MaxAllocs is not offered.                                               *)
PollEvents(Sizes, Mice, Escs) ==
  /\ pc = "poll"
  /\ \E sz \in Sizes, m \in Mice, esc \in Escs :
       /\ SizeOffered(sz)
       /\ winSize' = sz
       /\ mouseCallback(m[1], m[2])
       /\ shouldClose' = (shouldClose \/ esc)
  /\ pc' = "time"
  /\ UNCHANGED <<orbitVars, indexed, timeVars, pilotVars, cameraPreset, uiFrameOpen, sizeVars,
                 targetVars, flagVars, cameraState, bloomIterations, level, glVars>>

\* double now = glfwGetTime(); deltaTime = now - lastFrameTime; lastFrameTime = now;
FrameTime(Deltas) ==
  /\ pc = "time"
  /\ \E dt \in Deltas :
       /\ lastFrameTime + dt <= MaxTime
       /\ deltaTime' = dt
       /\ lastFrameTime' = lastFrameTime + dt
  /\ pc' = "ckey"
  /\ UNCHANGED <<orbitVars, indexed, inputVars, pilotVars, cameraPreset, uiFrameOpen, sizeVars,
                 targetVars, flagVars, cameraState, bloomIterations, level, glVars>>

\* `now` of the current iteration, once FrameTime has run
now == lastFrameTime

\* level-triggered toggle: the `!prevCKey` test dropped
CKeyStepLevel(cPressed) ==
  /\ autopilotActive' = IF cPressed THEN ~autopilotActive ELSE autopilotActive
  /\ autopilotT' = IF cPressed /\ ~autopilotActive THEN 0 ELSE autopilotT
  /\ prevCKey' = cPressed

\* progress reset on every press edge, also on deactivation
CKeyStepResetAlways(cPressed) ==
  /\ autopilotActive' = IF cPressed /\ ~prevCKey THEN ~autopilotActive
                        ELSE autopilotActive
  /\ autopilotT' = IF cPressed /\ ~prevCKey THEN 0 ELSE autopilotT
  /\ prevCKey' = cPressed

\* if (cPressed && !prevCKey) { autopilotActive = !autopilotActive;
\*   if (autopilotActive) autopilotT = 0.0; }  prevCKey = cPressed;
CKeyStep(cPressed) ==
  /\ autopilotActive' = IF cPressed /\ ~prevCKey THEN ~autopilotActive
                        ELSE autopilotActive
  /\ autopilotT' = IF cPressed /\ ~prevCKey /\ ~autopilotActive THEN 0
                   ELSE autopilotT
  /\ prevCKey' = cPressed

AutopilotKey(CKeys) ==
  /\ pc = "ckey"
  /\ \E cPressed \in CKeys : CKeyStep(cPressed)
  /\ pc' = "preset"
  /\ UNCHANGED <<orbitVars, indexed, inputVars, timeVars, cameraPreset, uiFrameOpen, sizeVars,
                 targetVars, flagVars, cameraState, bloomIterations, level, glVars>>

\* the five `if (glfwGetKey(GLFW_KEY_n) == GLFW_PRESS) cameraPreset = n;` in
\* source order 1, 2, 3, 4, 0: the last pressed key of that order wins
PresetAfterKeys(preset, keys) ==
  LET p1 == IF 1 \in keys THEN 1 ELSE preset
      p2 == IF 2 \in keys THEN 2 ELSE p1
      p3 == IF 3 \in keys THEN 3 ELSE p2
      p4 == IF 4 \in keys THEN 4 ELSE p3
  IN  IF 0 \in keys THEN 0 ELSE p4

PresetKeys(KeySets) ==
  /\ pc = "preset"
  /\ \E keys \in KeySets : cameraPreset' = PresetAfterKeys(cameraPreset, keys)
  /\ pc' = "advance"
  /\ UNCHANGED <<orbitVars, indexed, inputVars, timeVars, pilotVars, uiFrameOpen, sizeVars,
                 targetVars, flagVars, cameraState, bloomIterations, level, glVars>>

\* the clamp dropped: autopilotT + deltaTime / autopilotDuration
AdvancedTNoClamp(t, dt) == t + dt

\* the progress moved backwards: autopilotT - deltaTime / autopilotDuration
AdvancedTBackward(t, dt) == Min(autopilotDuration, t - dt)

\* std::min(1.0, autopilotT + deltaTime / autopilotDuration)
AdvancedT(t, dt) == Min(autopilotDuration, t + dt)

\* the `if (autopilotActive)` test dropped: progress advances in every frame
ProgressAfterFrameUnguarded(active, t, dt) == AdvancedT(t, dt)

\* if (autopilotActive) autopilotT = std::min(...);
ProgressAfterFrame(active, t, dt) == IF active THEN AdvancedT(t, dt) ELSE t

AutopilotAdvance ==
  /\ pc = "advance"
  /\ autopilotT' = ProgressAfterFrame(autopilotActive, autopilotT, deltaTime)
  /\ pc' = "newframe"
  /\ UNCHANGED <<orbitVars, indexed, inputVars, timeVars, autopilotActive, prevCKey, cameraPreset,
                 uiFrameOpen, sizeVars, targetVars, flagVars, cameraState,
                 bloomIterations, level, glVars>>

\* ImGui_ImplOpenGL3_NewFrame(); ImGui_ImplGlfw_NewFrame(); ImGui::NewFrame();
UiNewFrame ==
  /\ pc = "newframe"
  /\ uiFrameOpen' = TRUE
  /\ pc' = "getsize"
  /\ UNCHANGED <<orbitVars, indexed, inputVars, timeVars, pilotVars, cameraPreset, sizeVars,
                 targetVars, flagVars, cameraState, bloomIterations, level, glVars>>

\* the skip test weakened to `width < 0 || height < 0`
ZeroAreaStrict(w, h) == w < 0 \/ h < 0

\* if (width <= 0 || height <= 0)
ZeroArea(w, h) == w <= 0 \/ h <= 0

\* glfwGetFramebufferSize(window, &width, &height);
\* if (width <= 0 || height <= 0) { glfwSwapBuffers(window); continue; }
\* glViewport(0, 0, width, height);
FramebufferSize ==
  /\ pc = "getsize"
  /\ width' = winSize[1]
  /\ height' = winSize[2]
  /\ IF ZeroArea(winSize[1], winSize[2])
       THEN /\ passes' = Append(passes, SwapBuffers)
            /\ pc' = "loop"
            /\ UNCHANGED glViewportSize
       ELSE /\ glViewportSize' = winSize
            /\ pc' = "resize"
            /\ UNCHANGED passes
  /\ UNCHANGED <<orbitVars, indexed, inputVars, timeVars, pilotVars, cameraPreset, uiFrameOpen,
                 targetVars, flagVars, cameraState, bloomIterations, level, boundFbo>>


(* ---------------------------------------------------------------------- *)
(* Render targets                                                          *)
(* ---------------------------------------------------------------------- *)
RECURSIVE Pow2(_)
Pow2(k) == IF k = 0 THEN 1 ELSE 2 * Pow2(k - 1)

\* d >> k for a non-negative int d
Shr(d, k) == d \div Pow2(k)

\* the floor to 1 dropped
MipDimNoFloor(d, k) == Shr(d, k)

\* int x = d >> k; if (x < 1) x = 1;
MipDim(d, k) == IF Shr(d, k) < 1 THEN 1 ELSE Shr(d, k)

\* the allocation loop run one level too far: i <= kMaxBloomIter
AllocatedLevelsInclusive == 0 .. kMaxBloomIter

\* the levels allocated cut to the configured level count
AllocatedLevelsConfigured == 0 .. (bloomIterations - 1)

\* for (int i = 0; i < kMaxBloomIter; i++)
AllocatedLevels == Levels

\* createColorTexture(w, h): the name of a new texture object of that size;
\* names are handed out in order and never reused (nothing is deleted)
TexturesAfter(store, sizes) == store \o sizes

\* createColorTexture: the name of the new texture, or the invalid name 0 when
\* the creation fails
createColorTexture(next, fails) == IF fails THEN 0 ELSE next

\* the texture and framebuffer objects after the allocation block, and the names
\* the block stores, in creation order: texBlackhole, (framebuffer), texBrightness,
\* texBloomFinal, texTonemapped, then texDownsampled[i], texUpsampled[i] per level;
\* a failed creation makes no object and the later names move up by one
Reallocate(rw, rh) ==
  LET base == Len(glTextures)
      n == Cardinality(AllocatedLevels)
      f == IF allocFault[1] = "texture" THEN allocFault[2] ELSE 0
      name(k) == createColorTexture(base + k - (IF f # 0 /\ f < k THEN 1 ELSE 0), k = f)
      downName(i) == name(5 + 2 * i)
      upName(i) == name(6 + 2 * i)
      fbFails == allocFault[1] = "framebuffer"
      sizes == [k \in 1 .. (4 + 2 * n) |->
                  IF k <= 4 THEN <<rw, rh>>
                  ELSE IF (k - 5) % 2 = 0
                    THEN <<MipDim(rw, ((k - 5) \div 2) + 1), MipDim(rh, ((k - 5) \div 2) + 1)>>
                    ELSE <<MipDim(rw, (k - 6) \div 2), MipDim(rh, (k - 6) \div 2)>>]
      made == [j \in 1 .. (IF f \in 1 .. Len(sizes) THEN Len(sizes) - 1 ELSE Len(sizes)) |->
                 sizes[IF f # 0 /\ j >= f THEN j + 1 ELSE j]]
  IN  /\ renderWidth' = rw
      /\ renderHeight' = rh
      /\ SCR_WIDTH' = width
      /\ SCR_HEIGHT' = height
      /\ glTextures' = TexturesAfter(glTextures, made)
      /\ texBlackhole' = name(1)
      /\ glFramebuffers' = IF fbFails THEN glFramebuffers
                           ELSE Append(glFramebuffers,
                                       [color |-> name(1), w |-> rw, h |-> rh, depth |-> TRUE])
      /\ fboBlackhole' = IF fbFails THEN 0 ELSE Len(glFramebuffers) + 1
      /\ texBrightness' = name(2)
      /\ texBloomFinal' = name(3)
      /\ texTonemapped' = name(4)
      /\ allocFault' = NoFault
      /\ texDownsampled' = [i \in Levels |->
                              IF i \in AllocatedLevels THEN downName(i) ELSE texDownsampled[i]]
      /\ texUpsampled' = [i \in Levels |->
                            IF i \in AllocatedLevels THEN upName(i) ELSE texUpsampled[i]]

\* the allocation block is about to run and one of its creation calls will
\* fail; Faults are the failures offered, for the first allocation of a run
DriverFault(Faults) ==
  /\ pc = "resize"
  /\ NeedsRealloc(width, height)
  /\ glTextures = <<>>
  /\ allocFault = NoFault
  /\ \E flt \in Faults : allocFault' = flt
  /\ UNCHANGED <<orbitVars, indexed, pc, inputVars, timeVars, pilotVars, cameraPreset, uiFrameOpen, sizeVars,
                 renderWidth, renderHeight, SCR_WIDTH, SCR_HEIGHT, texBlackhole,
                 fboBlackhole, texBrightness, texDownsampled, texUpsampled,
                 texBloomFinal, texTonemapped, glTextures, glFramebuffers,
                 flagVars, cameraState, bloomIterations, level, glVars>>

\* where the loop body continues after assert(fboBlackhole != 0): a build with
\* assertions aborts on a zero handle, a build with NDEBUG goes on
AfterAssert(fbo) == IF fbo = 0 THEN {"aborted", "checkboxes"} ELSE {"checkboxes"}

\* scaled resolution and the allocation block
EnsureSized ==
  /\ pc = "resize"
  /\ IF NeedsRealloc(width, height)
       THEN /\ Reallocate(ScaledDim(width), ScaledDim(height))
            /\ indexed' = indexed \cup AllocatedLevels
            /\ pc' \in AfterAssert(fboBlackhole')
       ELSE /\ UNCHANGED <<targetVars, indexed>>
            /\ pc' = "checkboxes"
  /\ UNCHANGED <<orbitVars, inputVars, timeVars, pilotVars, cameraPreset, uiFrameOpen, sizeVars,
                 flagVars, cameraState, bloomIterations, level, glVars>>


(* ---------------------------------------------------------------------- *)
(* Camera                                                                  *)
(* ---------------------------------------------------------------------- *)
\* ImGui::Checkbox("mouseControl" / "frontView" / "topView"): the user may
\* have clicked any of them; FlagSets are the resulting values offered
CameraCheckboxes(FlagSets) ==
  /\ pc = "checkboxes"
  /\ \E f \in FlagSets :
       /\ mouseControlEnabled' = f[1]
       /\ frontView' = f[2]
       /\ topView' = f[3]
  /\ pc' = "camera"
  /\ UNCHANGED <<orbitVars, indexed, inputVars, timeVars, pilotVars, cameraPreset, uiFrameOpen, sizeVars,
                 targetVars, cameraState, bloomIterations, level, glVars>>

\* easeInOutCubic(t) for t = T / autopilotDuration, as <<num, den>>:
\* t < 0.5 ? 4 t^3 : 1 - (-2 t + 2)^3 / 2
easeInOutCubic(T) ==
  LET D == autopilotDuration
      D3 == D * D * D
      num == IF 2 * T < D THEN 4 * T * T * T
             ELSE D3 - 4 * (D - T) * (D - T) * (D - T)
      g == Gcd(num, D3)
  IN  <<num \div g, D3 \div g>>

bezierP0 == <<25, 12, 25>>
bezierP1 == <<-15, 8, 20>>
bezierP2 == <<12, 3, 8>>
bezierP3 == <<0, 1, 5>>

\* uuu * p0 + 3 uu t * p1 + 3 u tt * p2 + ttt * p3, u = 1 - t, for t = e[1] / e[2]
calculateBezierPoint(e, p0, p1, p2, p3) ==
  LET n == e[1]
      d == e[2]
      u == d - n
      comp(i) == Q(u * u * u * p0[i] + 3 * u * u * n * p1[i]
                   + 3 * u * n * n * p2[i] + n * n * n * p3[i], d * d * d)
  IN  <<comp(1), comp(2), comp(3)>>

\* -cos(num / den) * 15.0f: exact where the angle is 0, else kept as a term
NegCos15(num, den) ==
  IF num = 0 THEN Q(-15, 1)
  ELSE LET g == Gcd(Abs(num), den) IN <<"-15*cos", num \div g, den \div g>>

\* sin(num / den) * 15.0f: exact where the angle is 0, else kept as a term
Sin15(num, den) ==
  IF num = 0 THEN Q(0, 1)
  ELSE LET g == Gcd(Abs(num), den) IN <<"15*sin", num \div g, den \div g>>

\* clamp(m / dim, 0, 1) - 0.5 as <<num, den>>, den = 2 * dim
MouseOffset(m, dim) ==
  LET c == IF m < 0 THEN 0 ELSE IF m > dim THEN dim ELSE m
  IN  <<2 * c - dim, 2 * dim>>

\* the position of the manual pointer-control branch
ManualPos(w, h, mx, my) ==
  LET ox == MouseOffset(mx, w)
      oy == MouseOffset(my, h)
  IN  <<NegCos15(10 * ox[1], ox[2]),
        Q(30 * oy[1], oy[2]),
        Sin15(10 * ox[1], ox[2])>>

FrontPos == Vec3(10, 1, 10)
TopPos == Vec3(15, 15, 0)

\* cos and sin exchanged in the default branch
OrbitViewPosSinFirst(timeSeconds) ==
  <<Sin15(timeSeconds, 10), NegCos15(timeSeconds, 10), NegCos15(timeSeconds, 10)>>

\* the position of the default orbit-view branch, angle = timeSeconds * 0.1
OrbitViewPos(timeSeconds) ==
  <<NegCos15(timeSeconds, 10), Sin15(timeSeconds, 10), Sin15(timeSeconds, 10)>>

\* the front preset tested before manual control
computeCameraStateFrontFirst(timeSeconds, w, h, mx, my, mouseControl, front, top, active, autopilotPos) ==
  [pos |-> IF active THEN autopilotPos
           ELSE IF front THEN FrontPos
           ELSE IF mouseControl THEN ManualPos(w, h, mx, my)
           ELSE IF top THEN TopPos
           ELSE OrbitViewPos(timeSeconds),
   target |-> Vec3(0, 0, 0)]

\* the if / else-if chain of computeCameraState and cs.target = glm::vec3(0.0f)
computeCameraState(timeSeconds, w, h, mx, my, mouseControl, front, top, active, autopilotPos) ==
  [pos |-> IF active THEN autopilotPos
           ELSE IF mouseControl THEN ManualPos(w, h, mx, my)
           ELSE IF front THEN FrontPos
           ELSE IF top THEN TopPos
           ELSE OrbitViewPos(timeSeconds),
   target |-> Vec3(0, 0, 0)]

\* autopilotPos of this frame
AutopilotPos ==
  calculateBezierPoint(easeInOutCubic(autopilotT), bezierP0, bezierP1, bezierP2, bezierP3)

ComputeCamera ==
  /\ pc = "camera"
  /\ cameraState' = computeCameraState(now, renderWidth, renderHeight, mouseX, mouseY,
                                       mouseControlEnabled, frontView, topView,
                                       autopilotActive, AutopilotPos)
  /\ pc' = "blackhole"
  /\ UNCHANGED <<orbitVars, indexed, inputVars, timeVars, pilotVars, cameraPreset, uiFrameOpen, sizeVars,
                 targetVars, flagVars, bloomIterations, level, glVars>>


(* ---------------------------------------------------------------------- *)
(* Render passes                                                           *)
(* ---------------------------------------------------------------------- *)
\* renderToTexture(rtti): one full-screen draw into rtti.targetTexture at
\* rtti.width x rtti.height sampling rtti.textureUniforms
renderToTexture(op, target, w, h, reads, lvl) ==
  passes' = Append(passes, Pass(op, 0, target, w, h, reads, lvl))

\* Step 1: glBindFramebuffer(fboBlackhole); glViewport(render size); ray-march draw
BlackholePass ==
  /\ pc = "blackhole"
  /\ boundFbo' = fboBlackhole
  /\ glViewportSize' = <<renderWidth, renderHeight>>
  /\ passes' = Append(passes, Pass("blackhole", fboBlackhole, 0,
                                   renderWidth, renderHeight, <<>>, -1))
  /\ pc' = "satellite"
  /\ UNCHANGED <<orbitVars, indexed, inputVars, timeVars, pilotVars, cameraPreset, uiFrameOpen, sizeVars,
                 targetVars, flagVars, cameraState, bloomIterations, level>>

\* Step 2: glClear(GL_DEPTH_BUFFER_BIT); renderSatellite(...) into the bound framebuffer
SatellitePass ==
  /\ pc = "satellite"
  /\ passes' = Append(passes, Pass("satellite", boundFbo, 0,
                                   glViewportSize[1], glViewportSize[2], <<>>, -1))
  /\ pc' = "grid"
  /\ UNCHANGED <<orbitVars, indexed, inputVars, timeVars, pilotVars, cameraPreset, uiFrameOpen, sizeVars,
                 targetVars, flagVars, cameraState, bloomIterations, level,
                 boundFbo, glViewportSize>>

\* spacetime curvature grid, wireframe, into the bound framebuffer
GridPass ==
  /\ pc = "grid"
  /\ passes' = Append(passes, Pass("grid", boundFbo, 0,
                                   glViewportSize[1], glViewportSize[2], <<>>, -1))
  /\ pc' = "release"
  /\ UNCHANGED <<orbitVars, indexed, inputVars, timeVars, pilotVars, cameraPreset, uiFrameOpen, sizeVars,
                 targetVars, flagVars, cameraState, bloomIterations, level,
                 boundFbo, glViewportSize>>

\* Step 4: glBindFramebuffer(GL_FRAMEBUFFER, 0)
ReleaseFramebuffer ==
  /\ pc = "release"
  /\ boundFbo' = 0
  /\ pc' = "brightness"
  /\ UNCHANGED <<orbitVars, indexed, inputVars, timeVars, pilotVars, cameraPreset, uiFrameOpen, sizeVars,
                 targetVars, flagVars, cameraState, bloomIterations, level,
                 glViewportSize, passes>>

BrightnessPass ==
  /\ pc = "brightness"
  /\ renderToTexture("brightness", texBrightness, renderWidth, renderHeight,
                     <<texBlackhole>>, -1)
  /\ pc' = "slider"
  /\ UNCHANGED <<orbitVars, indexed, inputVars, timeVars, pilotVars, cameraPreset, uiFrameOpen, sizeVars,
                 targetVars, flagVars, cameraState, bloomIterations, level,
                 boundFbo, glViewportSize>>

\* ImGui::SliderInt("bloomIterations", &bloomIterations, 1, kMaxBloomIter);
\* then `level = 0; level < bloomIterations` of the downsample loop
BloomSlider(LevelCounts) ==
  /\ pc = "slider"
  /\ \E n \in LevelCounts :
       /\ n >= 1 /\ n <= kMaxBloomIter
       /\ bloomIterations' = n
       /\ level' = 0
       /\ pc' = "down"
  /\ UNCHANGED <<orbitVars, indexed, inputVars, timeVars, pilotVars, cameraPreset, uiFrameOpen, sizeVars,
                 targetVars, flagVars, cameraState, glVars>>

\* the downsample loop run over every allocated level
DownsampleContinuesToMax(lvl) == lvl < kMaxBloomIter

\* the loop condition `level < bloomIterations` of the downsample loop
DownsampleContinues(lvl) == lvl < bloomIterations

\* the subscripts of the downsample pass: texDownsampled[level] and, unless
\* level == 0, texDownsampled[level - 1]
DownsampleIndices(lvl) == {lvl} \cup (IF lvl = 0 THEN {} ELSE {lvl - 1})

\* the subscripts of the upsample pass: texUpsampled[level]; texDownsampled[level]
\* at level == bloomIterations - 1, else texUpsampled[level + 1]; and, unless
\* level == 0, texDownsampled[level - 1]
UpsampleIndices(lvl) ==
  {lvl} \cup (IF lvl = bloomIterations - 1 THEN {lvl} ELSE {lvl + 1})
        \cup (IF lvl = 0 THEN {} ELSE {lvl - 1})

\* one iteration of `for (level = 0; level < bloomIterations; level++)`; on exit
\* the upsample loop starts at level = bloomIterations - 1
DownsamplePass ==
  /\ pc = "down"
  /\ DownsampleContinues(level)
  /\ renderToTexture("downsample", texDownsampled[level],
                     MipDim(renderWidth, level + 1), MipDim(renderHeight, level + 1),
                     <<IF level = 0 THEN texBrightness ELSE texDownsampled[level - 1]>>,
                     level)
  /\ level' = IF DownsampleContinues(level + 1) THEN level + 1 ELSE bloomIterations - 1
  /\ pc' = IF DownsampleContinues(level + 1) THEN "down" ELSE "up"
  /\ indexed' = indexed \cup DownsampleIndices(level)
  /\ UNCHANGED <<orbitVars, inputVars, timeVars, pilotVars, cameraPreset, uiFrameOpen, sizeVars,
                 targetVars, flagVars, cameraState, bloomIterations,
                 boundFbo, glViewportSize>>

\* the coarsest level taken to be the last allocated one, not the last active one
UpsampleSourceLastAllocated(lvl) ==
  IF lvl = kMaxBloomIter - 1 THEN texDownsampled[lvl] ELSE texUpsampled[lvl + 1]

\* texture0 of the upsample pass:
\* level == bloomIterations - 1 ? texDownsampled[level] : texUpsampled[level + 1]
UpsampleSource(lvl) ==
  IF lvl = bloomIterations - 1 THEN texDownsampled[lvl] ELSE texUpsampled[lvl + 1]

\* one iteration of `for (level = bloomIterations - 1; level >= 0; level--)`
UpsamplePass ==
  /\ pc = "up"
  /\ level >= 0
  /\ renderToTexture("upsample", texUpsampled[level],
                     MipDim(renderWidth, level), MipDim(renderHeight, level),
                     <<UpsampleSource(level),
                       IF level = 0 THEN texBrightness ELSE texDownsampled[level - 1]>>,
                     level)
  /\ level' = IF level - 1 >= 0 THEN level - 1 ELSE 0
  /\ pc' = IF level - 1 >= 0 THEN "up" ELSE "composite"
  /\ indexed' = indexed \cup UpsampleIndices(level)
  /\ UNCHANGED <<orbitVars, inputVars, timeVars, pilotVars, cameraPreset, uiFrameOpen, sizeVars,
                 targetVars, flagVars, cameraState, bloomIterations,
                 boundFbo, glViewportSize>>

CompositePass ==
  /\ pc = "composite"
  /\ renderToTexture("composite", texBloomFinal, renderWidth, renderHeight,
                     <<texBlackhole, texUpsampled[0]>>, -1)
  /\ pc' = "tonemap"
  /\ indexed' = indexed \cup {0}
  /\ UNCHANGED <<orbitVars, inputVars, timeVars, pilotVars, cameraPreset, uiFrameOpen, sizeVars,
                 targetVars, flagVars, cameraState, bloomIterations, level,
                 boundFbo, glViewportSize>>

TonemapPass ==
  /\ pc = "tonemap"
  /\ renderToTexture("tonemap", texTonemapped, renderWidth, renderHeight,
                     <<texBloomFinal>>, -1)
  /\ pc' = "passthrough"
  /\ UNCHANGED <<orbitVars, indexed, inputVars, timeVars, pilotVars, cameraPreset, uiFrameOpen, sizeVars,
                 targetVars, flagVars, cameraState, bloomIterations, level,
                 boundFbo, glViewportSize>>

\* the blit at the render resolution instead of the viewport
PresentSizeRender == <<renderWidth, renderHeight>>

\* the size arguments of passthrough.render(texTonemapped, width, height)
PresentSize == <<width, height>>

\* passthrough.render(texTonemapped, width, height): PostProcessPass::render binds
\* destFramebuffer = 0, sets the viewport to width x height and draws
PassthroughPass ==
  /\ pc = "passthrough"
  /\ boundFbo' = 0
  /\ glViewportSize' = PresentSize
  /\ passes' = Append(passes, Pass("passthrough", 0, 0, PresentSize[1], PresentSize[2],
                                   <<texTonemapped>>, -1))
  /\ pc' = "uirender"
  /\ UNCHANGED <<orbitVars, indexed, inputVars, timeVars, pilotVars, cameraPreset, uiFrameOpen, sizeVars,
                 targetVars, flagVars, cameraState, bloomIterations, level>>

\* ImGui::Render(); ImGui_ImplOpenGL3_RenderDrawData(ImGui::GetDrawData());
UiRender ==
  /\ pc = "uirender"
  /\ uiFrameOpen' = FALSE
  /\ pc' = "swap"
  /\ UNCHANGED <<orbitVars, indexed, inputVars, timeVars, pilotVars, cameraPreset, sizeVars,
                 targetVars, flagVars, cameraState, bloomIterations, level, glVars>>

\* glfwSwapBuffers(window) at the end of the loop body
EndOfFrameSwap ==
  /\ pc = "swap"
  /\ passes' = Append(passes, SwapBuffers)
  /\ pc' = "loop"
  /\ UNCHANGED <<orbitVars, indexed, inputVars, timeVars, pilotVars, cameraPreset, uiFrameOpen, sizeVars,
                 targetVars, flagVars, cameraState, bloomIterations, level,
                 boundFbo, glViewportSize>>

\* after the loop: ImGui shutdown, glfwDestroyWindow, glfwTerminate, return 0
Shutdown ==
  /\ pc = "shutdown"
  /\ uiFrameOpen' = FALSE
  /\ pc' = "exit"
  /\ UNCHANGED <<orbitVars, indexed, inputVars, timeVars, pilotVars, cameraPreset, sizeVars,
                 targetVars, flagVars, cameraState, bloomIterations, level, glVars>>

\* the steps of the loop body that take no input
FrameSteps ==
  \/ LoopTest
  \/ AutopilotAdvance
  \/ UiNewFrame
  \/ FramebufferSize
  \/ EnsureSized
  \/ ComputeCamera
  \/ BlackholePass
  \/ SatellitePass
  \/ GridPass
  \/ ReleaseFramebuffer
  \/ BrightnessPass
  \/ DownsamplePass
  \/ UpsamplePass
  \/ CompositePass
  \/ TonemapPass
  \/ PassthroughPass
  \/ UiRender
  \/ EndOfFrameSwap
  \/ Shutdown


(* ---------------------------------------------------------------------- *)
(* Satellite orbit: computeSatelliteOrbit at the times where the orbital   *)
(* angle is a whole number of half turns, in exact arithmetic.  A number   *)
(* is <<"q", num, den>>; the height is kept as its coefficient of sqrt(3). *)
(* ---------------------------------------------------------------------- *)
QAdd(a, b) == Q(a[2] * b[3] + b[2] * a[3], a[3] * b[3])
QMul(a, b) == Q(a[2] * b[2], a[3] * b[3])
QDiv(a, b) ==
  IF b[2] > 0 THEN Q(a[2] * b[3], a[3] * b[2]) ELSE Q(-(a[2] * b[3]), -(a[3] * b[2]))

semiMajorAxis == Q(11, 2)
eccentricity == Q(3, 10)
orbitSpeed == Q(3, 20)
verticalOscillation == Q(4, 5)
verticalFreq == Q(2, 5)

\* cos and sin of m * pi for a whole m
CosHalfTurns(m) == IF m % 2 = 0 THEN Q(1, 1) ELSE Q(-1, 1)
SinHalfTurns(m) == Q(0, 1)

\* sin(p * pi) for p a whole number of thirds, as its coefficient of sqrt(3):
\* 0, sqrt(3)/2, sqrt(3)/2, 0, -sqrt(3)/2, -sqrt(3)/2 for p = 0/3 .. 5/3
SinThirdTurns(p) ==
  LET k == (p[2] * (3 \div p[3])) % 6
  IN  IF k \in {1, 2} THEN Q(1, 2) ELSE IF k \in {4, 5} THEN Q(-1, 2) ELSE Q(0, 1)

\* the vertical oscillation term left out of the height
computeSatelliteOrbitFlat(m) ==
  LET e2 == QMul(eccentricity, eccentricity)
      r == QDiv(QMul(semiMajorAxis, QAdd(Q(1, 1), QMul(Q(-1, 1), e2))),
                QAdd(Q(1, 1), QMul(eccentricity, CosHalfTurns(m))))
  IN  [position |-> <<QMul(r, CosHalfTurns(m)), Q(0, 1), QMul(r, SinHalfTurns(m))>>]

\* computeSatelliteOrbit(timeSeconds) at timeSeconds = m * pi / orbitSpeed:
\* angle = m * pi; r = a (1 - e^2) / (1 + e cos(angle)); x = r cos(angle);
\* z = r sin(angle) = 0, so the tilt leaves y = z sin(incRad) +
\* verticalOscillation * sin(timeSeconds * verticalFreq) with its second term
\* only, and z cos(incRad) = 0.  The velocity is not modelled.
computeSatelliteOrbit(m) ==
  LET e2 == QMul(eccentricity, eccentricity)
      r == QDiv(QMul(semiMajorAxis, QAdd(Q(1, 1), QMul(Q(-1, 1), e2))),
                QAdd(Q(1, 1), QMul(eccentricity, CosHalfTurns(m))))
      x == QMul(r, CosHalfTurns(m))
      z == QMul(r, SinHalfTurns(m))
      phase == QMul(Q(m, 1), QDiv(verticalFreq, orbitSpeed))
      y == QMul(verticalOscillation, SinThirdTurns(phase))
  IN  [position |-> <<x, y, z>>]

\* the clock moves on by Steps half turns of the orbit
OrbitTime(Steps) ==
  /\ \E d \in Steps :
       /\ orbitHalfTurns + d <= MaxHalfTurns
       /\ orbitHalfTurns' = orbitHalfTurns + d
  /\ satState' = NotComputed
  /\ UNCHANGED <<indexed, pc, inputVars, timeVars, pilotVars, cameraPreset, uiFrameOpen, sizeVars,
                 targetVars, flagVars, cameraState, bloomIterations, level, glVars>>

\* SatelliteState satState = computeSatelliteOrbit(now);
OrbitSample ==
  /\ satState = NotComputed
  /\ satState' = computeSatelliteOrbit(orbitHalfTurns)
  /\ UNCHANGED <<indexed, pc, inputVars, timeVars, pilotVars, cameraPreset, uiFrameOpen, sizeVars,
                 targetVars, flagVars, cameraState, bloomIterations, level, glVars,
                 orbitHalfTurns>>


(* ---------------------------------------------------------------------- *)
(* Specifications: the same loop under three sets of inputs                *)
(* ---------------------------------------------------------------------- *)
AllFlags == {<<m, f, t>> : m \in BOOLEAN, f \in BOOLEAN, t \in BOOLEAN}
DefaultFlags == {<<TRUE, FALSE, FALSE>>}

\* autopilot and the zero-area skip: the C key, frame times, minimised windows
PilotSizes == {<<0, 0>>, <<0, 1080>>, <<1920, 0>>, <<1920, 1080>>}
PilotDeltas == {0, 9, 18}

PilotPoll == PollEvents(PilotSizes, {<<0, 0>>}, BOOLEAN)
PilotTime == FrameTime(PilotDeltas)
PilotCKey == AutopilotKey(BOOLEAN)
PilotPreset == PresetKeys({{}})
PilotCheckboxes == CameraCheckboxes(DefaultFlags)
PilotSlider == BloomSlider({InitialBloomIterations})

Next ==
  \/ PilotPoll
  \/ PilotTime
  \/ PilotCKey
  \/ PilotPreset
  \/ PilotCheckboxes
  \/ PilotSlider
  \/ FrameSteps

Spec == Init /\ [][Next]_vars

\* render targets: window sizes and bloom level counts
TargetSizes == {<<0, 0>>, <<1, 1>>, <<2, 1>>, <<683, 683>>, <<683, 1>>, <<1920, 1080>>}

TargetPoll == PollEvents(TargetSizes, {<<0, 0>>}, BOOLEAN)
TargetTime == FrameTime({0})
TargetCKey == AutopilotKey({FALSE})
TargetPreset == PresetKeys({{}})
TargetCheckboxes == CameraCheckboxes(DefaultFlags)
TargetSlider == BloomSlider(1 .. kMaxBloomIter)

NextTargets ==
  \/ TargetPoll
  \/ TargetTime
  \/ TargetCKey
  \/ TargetPreset
  \/ TargetCheckboxes
  \/ TargetSlider
  \/ FrameSteps

SpecTargets == Init /\ [][NextTargets]_vars

\* camera placement: mode flags, preset keys, pointer positions
CameraSizes == {<<0, 0>>, <<1920, 1080>>}
CameraMice == {<<0, 0>>, <<720, 405>>, <<960, 540>>}
CameraKeySets == {{}, {0}, {1}, {2}, {3}, {4}, {0, 1}}

CameraPoll == PollEvents(CameraSizes, CameraMice, BOOLEAN)
CameraTime == FrameTime({0, autopilotDuration})
CameraCKey == AutopilotKey(BOOLEAN)
CameraPreset == PresetKeys(CameraKeySets)
CameraFlags == CameraCheckboxes(AllFlags)
CameraSlider == BloomSlider({InitialBloomIterations})

NextCamera ==
  \/ CameraPoll
  \/ CameraTime
  \/ CameraCKey
  \/ CameraPreset
  \/ CameraFlags
  \/ CameraSlider
  \/ FrameSteps

SpecCamera == Init /\ [][NextCamera]_vars

\* allocation failures: any one creation call of the first allocation block
FaultSizes == {<<0, 0>>, <<2, 1>>, <<1920, 1080>>}
Faults ==
  {<<"texture", k>> : k \in 1 .. (4 + 2 * kMaxBloomIter)} \cup {<<"framebuffer", 0>>}

FaultPoll == PollEvents(FaultSizes, {<<0, 0>>}, BOOLEAN)
FaultTime == FrameTime({0})
FaultCKey == AutopilotKey({FALSE})
FaultPreset == PresetKeys({{}})
FaultDriver == DriverFault(Faults)
FaultCheckboxes == CameraCheckboxes(DefaultFlags)
FaultSlider == BloomSlider({1, kMaxBloomIter})

NextAllocFail ==
  \/ FaultPoll
  \/ FaultTime
  \/ FaultCKey
  \/ FaultPreset
  \/ FaultDriver
  \/ FaultCheckboxes
  \/ FaultSlider
  \/ FrameSteps

SpecAllocFail == Init /\ [][NextAllocFail]_vars

\* the orbit model sampled at successive half turns
OrbitClock == OrbitTime({1, 2})

NextOrbit ==
  \/ OrbitClock
  \/ OrbitSample

SpecOrbit == Init /\ [][NextOrbit]_vars


(* ---------------------------------------------------------------------- *)
(* Autopilot (Spec)                                                        *)
(* ---------------------------------------------------------------------- *)
\* a press edge of the C key is handled in this step: down now, up in the previous frame
CPressEdge == pc = "ckey" /\ prevCKey' /\ ~prevCKey

\* C1: the active flag flips in a step exactly when that step handles a press
\* edge of the C key; a frame that finds the key still held while autopilot is
\* active leaves the flag set and does not reset the progress.
C1_EdgeTriggeredToggle ==
  [][/\ (autopilotActive' # autopilotActive) <=> CPressEdge
     /\ (pc = "ckey" /\ prevCKey /\ prevCKey' /\ autopilotActive)
          => (autopilotActive' /\ autopilotT' = autopilotT)]_vars

\* the key is down in this frame, autopilot has been active since an earlier
\* frame (progress above 0) and is still active after the key was handled
C1_Witness ==
  pc = "preset" /\ prevCKey /\ autopilotActive /\ autopilotT > 0

\* C2: a step that activates autopilot leaves progress 0, and a step that takes
\* progress from a non-zero value to 0 is an activation (inactive -> active).
C2_ResetOnActivationOnly ==
  [][/\ (~autopilotActive /\ autopilotActive') => autopilotT' = 0
     /\ (autopilotT # 0 /\ autopilotT' = 0)
          => (~autopilotActive /\ autopilotActive')]_vars

\* autopilot was just activated by a press edge, in a frame after the first
C2_Witness ==
  pc = "preset" /\ prevCKey /\ autopilotActive /\ autopilotT = 0 /\ lastFrameTime > 0

\* C3: an advance from progress 0 with deltaTime = duration gives exactly 1; an
\* advance at 1 while active stays at 1; the step that reaches 1 leaves the
\* active flag alone, and the flag is only ever cleared by a press edge.
C3_Saturation ==
  [][/\ (pc = "advance" /\ autopilotActive /\ autopilotT = 0 /\ deltaTime = autopilotDuration)
          => autopilotT' = autopilotDuration
     /\ (pc = "advance" /\ autopilotActive /\ autopilotT = autopilotDuration) => autopilotT' = autopilotDuration
     /\ (autopilotT # autopilotDuration /\ autopilotT' = autopilotDuration) => autopilotActive' = autopilotActive
     /\ (autopilotActive /\ ~autopilotActive') => CPressEdge]_vars

\* an advance of a full duration has just left the progress at 1, still active
C3_Witness ==
  pc = "newframe" /\ autopilotActive /\ autopilotT = autopilotDuration /\ deltaTime = autopilotDuration

(* ---------------------------------------------------------------------- *)
(* Zero-area viewport (Spec)                                               *)
(* ---------------------------------------------------------------------- *)
\* the window is minimised and the loop body of this iteration is running
MinimisedFrame ==
  /\ (winSize[1] <= 0 \/ winSize[2] <= 0)
  /\ pc \in {"time", "ckey", "preset", "advance", "newframe", "getsize"}

OnlySwaps(log) == \A i \in 1 .. Len(log) : log[i].op = "swap"

\* C4 as stated: no step of a frame with a zero-area viewport changes the
\* autopilot state, the render targets or any other frame-loop state, and the
\* frame issues no render pass.
C4_SkipLeavesAllState ==
  [][MinimisedFrame
       => /\ UNCHANGED <<autopilotActive, autopilotT, cameraPreset, targetVars,
                         flagVars, cameraState, bloomIterations>>
          /\ OnlySwaps(passes')]_vars

\* C4, amended: a frame with a zero-area viewport skips the rendering part of the
\* body: it issues no render pass (only the buffer swap), performs no
\* reallocation and leaves the render targets, the allocated resolution, the
\* camera and the bloom configuration unchanged, and goes back to the loop test.
\* (The time, key and autopilot steps before the size test still run.)
C4_SkipLeavesRendering ==
  [][MinimisedFrame
       => /\ UNCHANGED <<targetVars, flagVars, cameraState, bloomIterations, boundFbo,
                         glViewportSize>>
          /\ OnlySwaps(passes')
          /\ pc' \in {"ckey", "preset", "advance", "newframe", "getsize", "loop"}]_vars

\* a minimised frame has taken the skip path after targets were allocated, with
\* autopilot active and time passing
C4_Witness ==
  /\ pc = "loop" /\ passes = <<SwapBuffers>>
  /\ (width <= 0 \/ height <= 0)
  /\ texBlackhole # 0 /\ autopilotActive /\ deltaTime > 0


(* ---------------------------------------------------------------------- *)
(* Render targets (SpecTargets)                                            *)
(* ---------------------------------------------------------------------- *)
\* the render resolution this iteration computes differs from the allocated
\* one, or nothing is allocated yet
ResolutionChanged ==
  \/ ScaledDim(width) # renderWidth
  \/ ScaledDim(height) # renderHeight
  \/ texBlackhole = 0

\* C5: the resize step reallocates exactly when the newly computed render
\* resolution differs from the allocated one or nothing is allocated; otherwise
\* it leaves every target handle and the texture objects unchanged; no other
\* step of the loop touches them.
C5_ResizeIdempotent ==
  [][/\ (pc = "resize" /\ ResolutionChanged)
          => /\ Len(glTextures') > Len(glTextures)
             /\ texBlackhole' > Len(glTextures)
             /\ renderWidth' = ScaledDim(width) /\ renderHeight' = ScaledDim(height)
     /\ (pc = "resize" /\ ~ResolutionChanged) => UNCHANGED targetVars
     /\ (pc # "resize") => UNCHANGED targetVars]_vars

\* a frame whose viewport differs from the one of the last allocation but scales
\* to the allocated render resolution has passed the resize step without allocating
C5_Witness ==
  /\ pc = "checkboxes" /\ Allocs = 1
  /\ width # SCR_WIDTH /\ renderWidth = ScaledDim(width)

\* max(1, d >> k), written with a division
HalvedFloored(d, k) == Max(1, d \div (2 ^ k))

SizeOf(tex) == glTextures[tex]

\* C6: once allocated at render resolution (W, H), level i's downsample target
\* is max(1, W >> (i+1)) x max(1, H >> (i+1)) and its upsample target
\* max(1, W >> i) x max(1, H >> i); at (512, 512) the downsample targets are
\* 256, 128, 64, 32, 16 square; every bloom-chain pass draws at the allocated
\* size of the texture it writes.
C6_MipSizes ==
  /\ texBlackhole # 0 =>
       \A i \in Levels :
         /\ SizeOf(texDownsampled[i]) = <<HalvedFloored(renderWidth, i + 1),
                                          HalvedFloored(renderHeight, i + 1)>>
         /\ SizeOf(texUpsampled[i]) = <<HalvedFloored(renderWidth, i),
                                        HalvedFloored(renderHeight, i)>>
  /\ (texBlackhole # 0 /\ renderWidth = 512 /\ renderHeight = 512) =>
       /\ SizeOf(texDownsampled[0]) = <<256, 256>>
       /\ SizeOf(texDownsampled[1]) = <<128, 128>>
       /\ SizeOf(texDownsampled[2]) = <<64, 64>>
       /\ SizeOf(texDownsampled[3]) = <<32, 32>>
       /\ SizeOf(texDownsampled[4]) = <<16, 16>>
  /\ \A k \in 1 .. Len(passes) :
       passes[k].target # 0 => <<passes[k].w, passes[k].h>> = SizeOf(passes[k].target)

\* the full bloom chain of five levels has run at render resolution 512 x 512
C6_Witness ==
  /\ pc = "composite" /\ bloomIterations = 5
  /\ renderWidth = 512 /\ renderHeight = 512

NumTargets(arr) == Cardinality({i \in Levels : arr[i] # 0})

NumPasses(op) == Cardinality({k \in 1 .. Len(passes) : passes[k].op = op})

\* C7 as stated: after the first allocation the number of downsample targets and
\* of upsample targets equals the configured level count bloomIterations.
C7_TargetCountIsLevelCount ==
  texBlackhole # 0 =>
    /\ NumTargets(texDownsampled) = bloomIterations
    /\ NumTargets(texUpsampled) = bloomIterations

\* C7, amended: after the first allocation the number of downsample targets and
\* of upsample targets is the reserved maximum kMaxBloomIter whatever the
\* configured level count is, every one of them allocated by the latest
\* (re)allocation; what equals bloomIterations is the number of downsample and
\* of upsample passes a frame issues.
C7_TargetCountIsMaximum ==
  /\ texBlackhole # 0 =>
       /\ NumTargets(texDownsampled) = kMaxBloomIter
       /\ NumTargets(texUpsampled) = kMaxBloomIter
       /\ \A i \in Levels : /\ texDownsampled[i] > texBlackhole
                            /\ texUpsampled[i] > texBlackhole
  /\ pc = "composite" =>
       /\ NumPasses("downsample") = bloomIterations
       /\ NumPasses("upsample") = bloomIterations

\* a bloom chain of fewer levels than the maximum has run on targets that were
\* reallocated after the level count was lowered
C7_Witness ==
  pc = "composite" /\ bloomIterations < kMaxBloomIter /\ Allocs >= 2

\* the resize step of this iteration is done and the frame is being rendered
Rendering ==
  pc \in {"checkboxes", "camera", "blackhole", "satellite", "grid", "release",
          "brightness", "slider", "down", "up", "composite", "tonemap",
          "passthrough", "uirender", "swap"}

\* r = max(1, floor(d * 3 / 4))
IsScaled(r, d) ==
  \/ 4 * r <= 3 * d /\ 3 * d < 4 * (r + 1) /\ r >= 1
  \/ r = 1 /\ 3 * d < 4

\* C8: while a frame is rendered its render resolution is
\* (max(1, floor(w * 0.75)), max(1, floor(h * 0.75))) for the viewport (w, h):
\* at least 1 and at most the viewport on each axis, 1440 x 810 for 1920 x 1080.
C8_RenderResolution ==
  Rendering =>
    /\ IsScaled(renderWidth, width) /\ IsScaled(renderHeight, height)
    /\ 1 <= renderWidth /\ renderWidth <= width
    /\ 1 <= renderHeight /\ renderHeight <= height
    /\ (width = 1920 /\ height = 1080) => (renderWidth = 1440 /\ renderHeight = 810)

\* a frame is rendered at 1440 x 810 for the viewport 1920 x 1080
C8_Witness ==
  /\ pc = "camera" /\ width = 1920 /\ height = 1080
  /\ renderWidth = 1440 /\ renderHeight = 810

(* ---------------------------------------------------------------------- *)
(* Camera (SpecCamera)                                                     *)
(* ---------------------------------------------------------------------- *)
\* C9: the camera of a frame is placed by the first of autopilot, manual pointer
\* control, front preset, top preset whose flag is set, else by the default
\* orbit view, whatever the lower-priority flags are; its target is the origin.
C9_CameraPriority ==
  pc = "blackhole" =>
    /\ cameraState.target = <<Q(0, 1), Q(0, 1), Q(0, 1)>>
    /\ autopilotActive => cameraState.pos = AutopilotPos
    /\ (~autopilotActive /\ mouseControlEnabled)
         => cameraState.pos = ManualPos(renderWidth, renderHeight, mouseX, mouseY)
    /\ (~autopilotActive /\ ~mouseControlEnabled /\ frontView)
         => cameraState.pos = <<Q(10, 1), Q(1, 1), Q(10, 1)>>
    /\ (~autopilotActive /\ ~mouseControlEnabled /\ ~frontView /\ topView)
         => cameraState.pos = <<Q(15, 1), Q(15, 1), Q(0, 1)>>
    /\ (~autopilotActive /\ ~mouseControlEnabled /\ ~frontView /\ ~topView)
         => cameraState.pos = OrbitViewPos(now)

\* both presets are checked with manual control off: the front preset placed
\* the camera, not the top preset
C9_Witness ==
  /\ pc = "blackhole" /\ ~autopilotActive /\ ~mouseControlEnabled
  /\ frontView /\ topView
  /\ cameraState.pos = <<Q(10, 1), Q(1, 1), Q(10, 1)>>

\* C10 as stated: the preset keys take effect on the camera placement: with a
\* preset 1-4 selected and no other mode flag set, the camera of the frame is
\* not the one of the default view.
C10_PresetSelectsView ==
  (/\ pc = "blackhole" /\ cameraPreset \in 1 .. 4
   /\ ~autopilotActive /\ ~mouseControlEnabled /\ ~frontView /\ ~topView)
    => cameraState.pos # OrbitViewPos(now)

\* C11: with autopilot inactive and manual control off, the camera of a frame is
\* at (-15, 0, 0) in the default view at time 0, at (10, 1, 10) with only the
\* front preset set and at (15, 15, 0) with only the top preset set, at every
\* time and pointer position.
C11_FixedPositions ==
  (pc = "blackhole" /\ ~autopilotActive /\ ~mouseControlEnabled) =>
    /\ (~frontView /\ ~topView /\ now = 0)
         => cameraState.pos = <<Q(-15, 1), Q(0, 1), Q(0, 1)>>
    /\ (frontView /\ ~topView) => cameraState.pos = <<Q(10, 1), Q(1, 1), Q(10, 1)>>
    /\ (~frontView /\ topView) => cameraState.pos = <<Q(15, 1), Q(15, 1), Q(0, 1)>>

\* the default view has placed the camera at time 0 with the pointer away from
\* the origin of the window
C11_Witness ==
  /\ pc = "blackhole" /\ ~autopilotActive /\ ~mouseControlEnabled
  /\ ~frontView /\ ~topView /\ now = 0 /\ mouseX > 0
  /\ cameraState.pos = <<Q(-15, 1), Q(0, 1), Q(0, 1)>>

\* C13: while the autopilot is inactive its progress is frozen: no step that
\* starts and ends with the autopilot inactive changes the progress, whatever
\* the frame's deltaTime; only the next activation changes it.
C13_FrozenWhileInactive ==
  [][(~autopilotActive /\ ~autopilotActive') => autopilotT' = autopilotT]_vars

\* a frame of positive duration has passed its advance step with the autopilot
\* inactive and a progress strictly between the ends
C13_Witness ==
  /\ pc = "newframe" /\ ~autopilotActive /\ deltaTime > 0
  /\ autopilotT > 0 /\ autopilotT < autopilotDuration

\* C14: the progress stays in [0, 1] (0 .. autopilotDuration in seconds); the
\* advance step of an active frame sets it to min(1, t + deltaTime / duration);
\* and it never decreases except at an activation.
C14_ProgressRange ==
  /\ [](autopilotT >= 0 /\ autopilotT <= autopilotDuration)
  /\ [][/\ (pc = "advance" /\ autopilotActive) =>
             autopilotT' = IF autopilotT + deltaTime <= autopilotDuration
                           THEN autopilotT + deltaTime ELSE autopilotDuration
        /\ (~autopilotActive /\ autopilotActive') \/ autopilotT' >= autopilotT]_vars

\* an active frame of positive duration has advanced the progress to a value
\* strictly inside the range
C14_Witness ==
  /\ pc = "newframe" /\ autopilotActive /\ deltaTime > 0
  /\ autopilotT = deltaTime /\ autopilotT < autopilotDuration

\* C15: at every render pass of a frame the primary colour image, the depth
\* buffer of its framebuffer, the brightness, bloom-final and tonemapped images
\* all have this frame's render resolution; the targets are (re)allocated only
\* in the one resize step of the frame, which precedes the frame's first pass,
\* and never between passes.
C15_TargetsAtFrameResolution ==
  /\ [](Rendering =>
          /\ IsScaled(renderWidth, width) /\ IsScaled(renderHeight, height)
          /\ \A t \in {texBlackhole, texBrightness, texBloomFinal, texTonemapped} :
               t # 0 /\ SizeOf(t) = <<renderWidth, renderHeight>>
          /\ fboBlackhole # 0
          /\ glFramebuffers[fboBlackhole] =
               [color |-> texBlackhole, w |-> renderWidth, h |-> renderHeight,
                depth |-> TRUE])
  /\ [][(targetVars' # targetVars) =>
          (pc = "resize" /\ pc' = "checkboxes" /\ passes = <<>>)]_vars

\* a frame at a second resolution is past its first pass with targets that were
\* reallocated for it
C15_Witness ==
  /\ pc = "tonemap" /\ Allocs >= 2
  /\ SizeOf(texBrightness) = <<renderWidth, renderHeight>>
  /\ IsScaled(renderWidth, width) /\ IsScaled(renderHeight, height)

\* the draw calls of a frame with L bloom levels, in order, and their levels
FrameOps(L) ==
  <<"blackhole", "satellite", "grid", "brightness">>
    \o [k \in 1 .. L |-> "downsample"] \o [k \in 1 .. L |-> "upsample"]
    \o <<"composite", "tonemap", "passthrough", "swap">>

FrameLvls(L) ==
  <<-1, -1, -1, -1>> \o [k \in 1 .. L |-> k - 1] \o [k \in 1 .. L |-> L - k]
    \o <<-1, -1, -1, -1>>

\* C16: the draw calls of a frame that is not skipped are, each exactly once and
\* in this order: black hole, satellite (after the depth clear) and grid into
\* the offscreen framebuffer, then, with the default framebuffer bound again,
\* bright-pass, downsample levels 0 .. L-1 ascending, upsample levels L-1 .. 0
\* descending, composite, tonemap, the passthrough blit to the default
\* framebuffer at the viewport size, and the buffer swap.
C16_PassOrder ==
  LET ops == FrameOps(bloomIterations)
      lvls == FrameLvls(bloomIterations)
  IN  \/ passes = <<SwapBuffers>> /\ pc = "loop"
      \/ /\ Len(passes) <= Len(ops)
         /\ \A k \in 1 .. Len(passes) :
              /\ passes[k].op = ops[k] /\ passes[k].lvl = lvls[k]
              /\ IF k <= 3 THEN passes[k].fbo = fboBlackhole /\ fboBlackhole # 0
                           ELSE passes[k].fbo = 0
              /\ passes[k].op = "passthrough" =>
                   (passes[k].target = 0 /\ passes[k].w = width /\ passes[k].h = height)
         /\ (pc = "loop" /\ passes # <<>>) => Len(passes) = Len(ops)
         /\ pc \in {"satellite", "grid", "release"} => boundFbo = fboBlackhole
         /\ pc \in {"brightness", "slider", "down", "up", "composite", "tonemap",
                    "passthrough", "uirender", "swap"} => boundFbo = 0

\* a frame with three bloom levels is complete: 14 draw calls, the blit at a
\* viewport larger than the render resolution
C16_Witness ==
  /\ pc = "loop" /\ bloomIterations = 3 /\ Len(passes) = 14
  /\ passes[13].op = "passthrough" /\ passes[13].w = width /\ width > renderWidth

\* the render target a draw call writes: the target texture of a
\* render-to-texture pass, the colour attachment of the framebuffer of a direct draw
Written(p) ==
  IF p.target # 0 THEN p.target
  ELSE IF p.fbo # 0 THEN glFramebuffers[p.fbo].color ELSE 0

\* C17: for every level count, each pass of a frame samples only render targets
\* that an earlier pass of the same frame has written, and never the target it
\* writes; downsample level k samples the brightness target (k = 0) or
\* downsampled[k-1]; upsample level k samples downsampled[k] at the coarsest
\* level, upsampled[k+1] otherwise; the composite samples upsampled[0].
C17_ReadsEarlierOutput ==
  \A k \in 1 .. Len(passes) :
    LET p == passes[k]
    IN  /\ \A i \in 1 .. Len(p.reads) :
             /\ p.reads[i] # 0
             /\ p.reads[i] # Written(p)
             /\ \E j \in 1 .. (k - 1) : Written(passes[j]) = p.reads[i]
        /\ p.op = "downsample" =>
             p.reads[1] = IF p.lvl = 0 THEN texBrightness ELSE texDownsampled[p.lvl - 1]
        /\ p.op = "upsample" =>
             p.reads[1] = IF p.lvl = bloomIterations - 1 THEN texDownsampled[p.lvl]
                          ELSE texUpsampled[p.lvl + 1]
        /\ p.op = "composite" => p.reads[2] = texUpsampled[0]

\* with three active levels the upsample pass of the coarsest level has sampled downsampled[2] and the next one upsampled[2]
C17_Witness ==
  /\ pc = "composite" /\ bloomIterations = 3 /\ Len(passes) = 10
  /\ passes[8].reads[1] = texDownsampled[2]
  /\ passes[9].reads[1] = texUpsampled[2]

\* the mip targets above the active level count
InactiveTargets ==
  {texDownsampled[i] : i \in {j \in Levels : j >= bloomIterations}}
    \cup {texUpsampled[i] : i \in {j \in Levels : j >= bloomIterations}}

C20_CentredPointerOffset ==
  (pc = "blackhole" /\ ~autopilotActive /\ mouseControlEnabled) =>
    /\ (2 * mouseX = width /\ 2 * mouseY = height)
         => cameraState.pos = <<Q(-15, 1), Q(0, 1), Q(0, 1)>>
    /\ IF cameraState.pos[1][1] = "q" THEN cameraState.pos[1] = Q(-15, 1)
       ELSE Abs(cameraState.pos[1][2]) <= 5 * cameraState.pos[1][3]
    /\ Abs(cameraState.pos[2][2]) <= 15 * cameraState.pos[2][3]

(* ---------------------------------------------------------------------- *)
(* Allocation failure (SpecAllocFail)                                      *)
(* ---------------------------------------------------------------------- *)
\* a draw call issued with the invalid handle 0 as a texture it samples, as its
\* target texture, or as the offscreen framebuffer or its colour attachment
UsesInvalidHandle(p) ==
  \/ \E i \in 1 .. Len(p.reads) : p.reads[i] = 0
  \/ p.op \in {"brightness", "downsample", "upsample", "composite", "tonemap"}
       /\ p.target = 0
  \/ p.op \in {"blackhole", "satellite", "grid"}
       /\ IF p.fbo = 0 THEN TRUE ELSE glFramebuffers[p.fbo].color = 0

\* C19 as stated: a creation call of the allocation block that returns the
\* invalid handle 0 stops the program: the loop body never goes on to the
\* render passes with a zero handle stored, and no draw call is issued with one.
C19_AllocationFailureIsFatal ==
  /\ Rendering =>
       /\ texBlackhole # 0 /\ fboBlackhole # 0 /\ texBrightness # 0
       /\ texBloomFinal # 0 /\ texTonemapped # 0
       /\ \A i \in Levels : texDownsampled[i] # 0 /\ texUpsampled[i] # 0
  /\ \A k \in 1 .. Len(passes) : ~UsesInvalidHandle(passes[k])

(* ---------------------------------------------------------------------- *)
(* Orbit (SpecOrbit)                                                       *)
(* ---------------------------------------------------------------------- *)
\* the square of the magnitude of the reported position; the height is a
\* coefficient of sqrt(3)
MagnitudeSq(p) ==
  QAdd(QAdd(QMul(p[1], p[1]), QMul(Q(3, 1), QMul(p[2], p[2]))), QMul(p[3], p[3]))

\* the square of the radius in the orbital plane before the tilt
PlanarSq(p) == QAdd(QMul(p[1], p[1]), QMul(p[3], p[3]))

\* C12 as stated: the reported position has magnitude a(1-e) = 77/20 at
\* theta = 0 and magnitude a(1+e) = 143/20 at theta = pi.
C12_MagnitudeAtApsides ==
  (satState # NotComputed) =>
    /\ orbitHalfTurns = 0 => MagnitudeSq(satState.position) = Q(77 * 77, 20 * 20)
    /\ orbitHalfTurns = 1 => MagnitudeSq(satState.position) = Q(143 * 143, 20 * 20)

\* C12: the reported position has magnitude a(1-e) = 77/20 at theta = 0, where
\* the vertical oscillation term is zero; at theta = pi its radius in the
\* orbital plane is a(1+e) = 143/20 and its height is the vertical oscillation
\* term 0.8 sin(8 pi / 3) = (2/5) sqrt(3), so that its magnitude squared is
\* (143/20)^2 + 12/25.
C12_ApsidesWithOscillation ==
  (satState # NotComputed) =>
    /\ orbitHalfTurns = 0 => MagnitudeSq(satState.position) = Q(77 * 77, 20 * 20)
    /\ orbitHalfTurns = 1 =>
         /\ PlanarSq(satState.position) = Q(143 * 143, 20 * 20)
         /\ satState.position[2] = Q(2, 5)
         /\ MagnitudeSq(satState.position) = Q(143 * 143 + 12 * 16, 20 * 20)

\* the orbit model has been sampled at theta = pi
C12_Witness ==
  /\ orbitHalfTurns = 1 /\ satState # NotComputed
  /\ satState.position[1] = Q(-143, 20)

(* ---------------------------------------------------------------------- *)
(* Array subscripts (SpecTargets)                                          *)
(* ---------------------------------------------------------------------- *)
\* C21: for every level count in 1 .. kMaxBloomIter, every subscript used on the
\* downsample and upsample arrays in an iteration, by the allocation loop, the
\* two bloom loops and the composite, is at least 0 and below kMaxBloomIter.
C21_SubscriptsInRange ==
  \A i \in indexed : i >= 0 /\ i < kMaxBloomIter

\* an iteration has run the bloom chain and the composite with the maximal
\* level count and has used every element of the arrays, the last one included
C21_Witness ==
  /\ pc = "tonemap" /\ bloomIterations = kMaxBloomIter
  /\ Len(passes) = 4 + 2 * kMaxBloomIter + 1
  /\ indexed = 0 .. (kMaxBloomIter - 1)
  /\ passes[5 + kMaxBloomIter].lvl = kMaxBloomIter - 1

(* ---------------------------------------------------------------------- *)
(* Debug-UI frame protocol (Spec)                                          *)
(* ---------------------------------------------------------------------- *)
\* C22 as stated: the UI frame an iteration begins is ended before the
\* iteration is over, on the zero-area skip path too: no UI frame is open where
\* the loop condition is tested, nor where the next UI frame is begun.
C22_UiFrameBalanced ==
  pc \in {"loop", "newframe"} => ~uiFrameOpen

====
